---- MODULE Spec2Model ----
(***************************************************************************)
(* Authentication state machine of SecureIdentityManager: the credential   *)
(* store (MemStorage / DatabaseStorage), the passport local strategy, and  *)
(* the /api/register, /api/login, /api/verify-2fa, /api/web3-login,        *)
(* /api/user/*-2fa, /api/logout, /api/user and /api/admin/* handlers, and  *)
(* the Stripe subscription endpoint and webhook with the payment store.    *)
(*                                                                         *)
(* A string is a sequence of symbols, each symbol a run of characters that *)
(* carries its letter case, so toLowerCase and slice are computed.         *)
(* Each client (browser) owns one express session. A handler that awaits   *)
(* real asynchronous work (scrypt) between its lookup and its write is     *)
(* split at that await, and a client has at most one such handler in       *)
(* flight; the other handlers run in one step at any time.                 *)
(***************************************************************************)
EXTENDS Integers, Sequences, FiniteSets, TLC

\* ---------------------------------------------------------------- bounds
MaxUsers == 2
MaxTime == 2
MaxPayments == 2

\* ------------------------------------------------------------- universes
Clients == {"c1", "c2"}
Backends == {"mem", "db"}

Null == <<>>
NoSecret == 0
NoExpiration == 0
Secrets == {1, 2}

Usernames == {<<"al">>, <<"AL">>}
Emails == {<<"a@x">>, <<"A@X">>}
Passwords == {"p1", "p2"}
Malformed == <<"x">>

\* two wallets; their checksum addresses share the first ten characters
Wallet1 == <<"0xAB", "cd", "ef">>
Wallet2 == <<"0xAB", "cd", "gh">>
Wallets == {Wallet1, Wallet2}

VARIABLES backend, userStorage, paymentStorage, stripe, sessionStore,
          pc, req, response, now

vars == <<backend, userStorage, paymentStorage, stripe, sessionStore,
          pc, req, response, now>>

\* ------------------------------------------------------------ strings
LowerSym(c) ==
    CASE c = "AL" -> "al"
      [] c = "A@X" -> "a@x"
      [] c = "0xAB" -> "0xab"
      [] OTHER -> c

toLowerCase(s) == [i \in DOMAIN s |-> LowerSym(s[i])]

\* address.slice(0, 8) and address.slice(0, 10): an address is
\* <<chars 0..7, chars 8..9, chars 10..41>>
Slice8(address) == <<address[1]>>
Slice10(address) == <<address[1], address[2]>>

Addresses == Wallets \cup {toLowerCase(Wallet1)}

Min(S) == CHOOSE x \in S : \A y \in S : x <= y

\* ------------------------------------------------------ password hashing
scrypt(password, salt) == <<password, salt>>

\* `${digest}.${salt}`
hashPassword(password, salt) == <<scrypt(password, salt), salt>>

\* "true" / "false", or "throw": scrypt rejects an undefined salt and
\* timingSafeEqual rejects buffers of different length. A digest of 64
\* bytes is a pair <<password, salt>>; a shorter one is a shorter tuple.
comparePasswords(supplied, stored) ==
    IF Len(stored) < 2 THEN "throw"
    ELSE IF Len(stored[1]) # 2 THEN "throw"
    ELSE IF stored[1] = scrypt(supplied, stored[2]) THEN "true" ELSE "false"

\* --------------------------------------------------------------- TOTP
CodeMod == 4
Tokens == 0 .. (CodeMod - 1)

totp(secret, step) == (2 * secret + step) % CodeMod

TotpWindow == 1

\* variant: verification against the current step alone
totpVerifyNoWindow(secret, token, t) == token = totp(secret, t)

totpVerify(secret, token, t) ==
    \E d \in (0 - TotpWindow) .. TotpWindow : token = totp(secret, t + d)

\* ------------------------------------------------------ credential store
Salts == {"s1"}
NoUser == 0
UserIds == 1 .. MaxUsers

\* Stripe names a customer and a subscription by an id of its own; the
\* columns stripe_customer_id and stripe_subscription_id are null until set
NoCustomer == 0
NoSubscription == 0

Ids == DOMAIN userStorage

getUser(id) == IF id \in Ids THEN id ELSE NoUser

\* Array.find over the Map's values: the first match in insertion order
MemFind(matches) == IF matches = {} THEN {NoUser} ELSE {Min(matches)}

\* select ... where eq(column, value) limit 1, without an order by: any row
\* that matches
DbFind(matches) == IF matches = {} THEN {NoUser} ELSE matches

\* the ids a lookup can return (NoUser for undefined)
getUserByUsername(username) ==
    IF backend = "mem"
    THEN MemFind({i \in Ids :
             toLowerCase(userStorage[i].username) = toLowerCase(username)})
    ELSE DbFind({i \in Ids : userStorage[i].username = username})

getUserByEmail(email) ==
    IF backend = "mem"
    THEN MemFind({i \in Ids :
             toLowerCase(userStorage[i].email) = toLowerCase(email)})
    ELSE DbFind({i \in Ids : userStorage[i].email = email})

getUserByWalletAddress(walletAddress) ==
    IF backend = "mem"
    THEN MemFind({i \in Ids :
             /\ userStorage[i].walletAddress # Null
             /\ toLowerCase(userStorage[i].walletAddress) = toLowerCase(walletAddress)})
    ELSE DbFind({i \in Ids : userStorage[i].walletAddress = walletAddress})

\* username: text("username").notNull().unique() -- the only unique column,
\* compared exactly; MemStorage checks nothing
UniqueViolation(id, username) ==
    /\ backend = "db"
    /\ \E j \in Ids : j # id /\ userStorage[j].username = username

\* userData: [username, email, password, walletAddress, authType], the last
\* two Null / "" when the caller left them out
NewUser(id, userData) ==
    [ id |-> id,
      username |-> userData.username,
      email |-> userData.email,
      password |-> userData.password,
      role |-> "user",
      is2FAEnabled |-> FALSE,
      isPremium |-> FALSE,
      twoFactorSecret |-> NoSecret,
      stripeCustomerId |-> NoCustomer,
      stripeSubscriptionId |-> NoSubscription,
      lastLogin |-> now,
      walletAddress |-> userData.walletAddress,
      authType |-> IF userData.authType = "" THEN "email" ELSE userData.authType ]

createUserThrows(userData) == UniqueViolation(NoUser, userData.username)

createUser(userData) == Append(userStorage, NewUser(Len(userStorage) + 1, userData))

\* variant: the record is rebuilt from the caller's copy, premium at its default
MergeFromDefaults(user, updates) ==
    [f \in DOMAIN user |->
        IF f \in DOMAIN updates THEN updates[f]
        ELSE IF f = "isPremium" THEN FALSE ELSE user[f]]

\* { ...user, ...updates } / update users set <updates>
Merge(user, updates) ==
    [f \in DOMAIN user |-> IF f \in DOMAIN updates THEN updates[f] ELSE user[f]]

updateUserThrows(id, updates) ==
    \/ id \notin Ids
    \/ "username" \in DOMAIN updates /\ UniqueViolation(id, updates.username)

updateUser(store, id, updates) == [store EXCEPT ![id] = Merge(store[id], updates)]

\* variant: the last-login write left out
updateLastLoginSkipped(store, id) == store

updateLastLogin(store, id) ==
    IF id \in DOMAIN store THEN [store EXCEPT ![id].lastLogin = now] ELSE store

\* ----------------------------------------------------------- responses
\* the response sent by the last step (NoResponse when the step sent none)
NoResponse ==
    [op |-> "none", client |-> "none", status |-> 0, message |-> "", userId |-> NoUser]

Reply(c, op, status, message, userId) ==
    [op |-> op, client |-> c, status |-> status, message |-> message, userId |-> userId]

NoReq == [op |-> "none"]

Idle(c) == pc[c] = "idle"

\* requests that have passed their lookup and will still call createUser
Creating == {c \in Clients : pc[c] \in {"register_hash", "web3_hash"}}
Room == Len(userStorage) + Cardinality(Creating) < MaxUsers

\* variant: one session per user, a new login ends the user's other sessions
loginSingle(c, id) ==
    sessionStore' = [d \in Clients |->
                       IF d = c THEN id
                       ELSE IF sessionStore[d] = id THEN NoUser ELSE sessionStore[d]]

\* req.login: passport stores user.id in the client's session
login(c, id) == sessionStore' = [sessionStore EXCEPT ![c] = id]

\* a handler that runs without an await on real asynchronous work answers
\* in one step, whatever else the client has in flight
Answer(r) == response' = r

\* the end of a handler that was split at an await
Respond(c, r) ==
    /\ response' = r
    /\ pc' = [pc EXCEPT ![c] = "idle"]
    /\ req' = [req EXCEPT ![c] = NoReq]

Init ==
    /\ backend \in Backends
    /\ userStorage = <<>>
    /\ paymentStorage = <<>>
    /\ stripe = [customers |-> 0, retrieving |-> <<>>]
    /\ sessionStore = [c \in Clients |-> NoUser]
    /\ pc = [c \in Clients |-> "idle"]
    /\ req = [c \in Clients |-> NoReq]
    /\ response = NoResponse
    /\ now = 1

\* ------------------------------------------------- POST /api/register
\* body after insertUserSchema.safeParse: the seven picked fields
RegisterBodies ==
    [ username : Usernames, email : Emails, password : {"p1"},
      walletAddress : {Null, toLowerCase(Wallet1)}, authType : {"", "web3"} ]

\* the two lookups; a free username and email lead to hashPassword
Register(c, body) ==
    /\ Idle(c)
    /\ Room
    /\ \E byName \in getUserByUsername(body.username) :
       \E byEmail \in getUserByEmail(body.email) :
          IF byName # NoUser
          THEN Respond(c, Reply(c, "register", 400, "Username already exists", NoUser))
          ELSE IF byEmail # NoUser
          THEN Respond(c, Reply(c, "register", 400, "Email already in use", NoUser))
          ELSE /\ pc' = [pc EXCEPT ![c] = "register_hash"]
               /\ req' = [req EXCEPT ![c] = [op |-> "register", body |-> body]]
               /\ response' = NoResponse
    /\ UNCHANGED <<backend, paymentStorage, stripe, userStorage, sessionStore, now>>

\* after hashPassword resolves: createUser, req.login, 201
RegisterCreate(c) ==
    /\ pc[c] = "register_hash"
    /\ \E salt \in Salts :
         LET userData == [req[c].body EXCEPT
                            !.password = hashPassword(req[c].body.password, salt)]
         IN IF createUserThrows(userData)
            THEN /\ Respond(c, Reply(c, "register", 500, "Internal Server Error", NoUser))
                 /\ UNCHANGED <<userStorage, sessionStore>>
            ELSE /\ userStorage' = createUser(userData)
                 /\ login(c, Len(userStorage) + 1)
                 /\ Respond(c, Reply(c, "register", 201, "user", Len(userStorage) + 1))
    /\ UNCHANGED <<backend, paymentStorage, stripe, now>>

\* ---------------------------------------------------- POST /api/login
IncorrectMessage == "Incorrect username or password"

\* the fields of the looked-up user the strategy reads after the await
Snapshot(user) ==
    [id |-> user.id, password |-> user.password, is2FAEnabled |-> user.is2FAEnabled]

\* LocalStrategy: getUserByUsername; an unknown user is answered at once,
\* a known one goes on to comparePasswords
Login(c, username, password) ==
    /\ Idle(c)
    /\ \E id \in getUserByUsername(username) :
          IF id = NoUser
          THEN Respond(c, Reply(c, "login", 401, IncorrectMessage, NoUser))
          ELSE /\ pc' = [pc EXCEPT ![c] = "login_compare"]
               /\ req' = [req EXCEPT ![c] =
                            [op |-> "login", user |-> Snapshot(userStorage[id]),
                             password |-> password]]
               /\ response' = NoResponse
    /\ UNCHANGED <<backend, paymentStorage, stripe, userStorage, sessionStore, now>>

\* variant: the strategy without its 2FA gate
LoginFinishNoGate(c) ==
    /\ pc[c] = "login_compare"
    /\ LET user == req[c].user
           passwordValid == comparePasswords(req[c].password, user.password)
       IN IF passwordValid = "true"
          THEN /\ userStorage' = updateLastLogin(userStorage, user.id)
               /\ login(c, user.id)
               /\ Respond(c, Reply(c, "login", 200, "user", user.id))
          ELSE /\ Respond(c, Reply(c, "login", 401, IncorrectMessage, NoUser))
               /\ UNCHANGED <<userStorage, sessionStore>>
    /\ UNCHANGED <<backend, paymentStorage, stripe, now>>

\* after comparePasswords resolves: the 2FA gate, updateLastLogin, req.login
LoginFinish(c) ==
    /\ pc[c] = "login_compare"
    /\ LET user == req[c].user
           passwordValid == comparePasswords(req[c].password, user.password)
       IN CASE passwordValid = "throw" ->
                 /\ Respond(c, Reply(c, "login", 500, "Internal Server Error", NoUser))
                 /\ UNCHANGED <<userStorage, sessionStore>>
            [] passwordValid = "false" ->
                 /\ Respond(c, Reply(c, "login", 401, IncorrectMessage, NoUser))
                 /\ UNCHANGED <<userStorage, sessionStore>>
            [] passwordValid = "true" /\ user.is2FAEnabled ->
                 /\ Respond(c, Reply(c, "login", 200, "2FA verification required", user.id))
                 /\ UNCHANGED <<userStorage, sessionStore>>
            [] passwordValid = "true" /\ ~user.is2FAEnabled ->
                 /\ userStorage' = updateLastLogin(userStorage, user.id)
                 /\ login(c, user.id)
                 /\ Respond(c, Reply(c, "login", 200, "user", user.id))
    /\ UNCHANGED <<backend, paymentStorage, stripe, now>>

\* ------------------------------------------------ POST /api/verify-2fa
\* body: {token, userId}; userId 0 stands for a missing one
\* variant: an invalid code locks the identity's second factor
Verify2FALockout(c, userId, token) ==
    /\ LET id == getUser(userId)
       IN IF userId = NoUser
          THEN /\ Answer(Reply(c, "verify-2fa", 400, "User ID is required", NoUser))
               /\ UNCHANGED <<userStorage, sessionStore>>
          ELSE IF id = NoUser \/ userStorage[id].twoFactorSecret = NoSecret
          THEN /\ Answer(Reply(c, "verify-2fa", 400, "Invalid user or 2FA not setup", NoUser))
               /\ UNCHANGED <<userStorage, sessionStore>>
          ELSE IF ~totpVerify(userStorage[id].twoFactorSecret, token, now)
          THEN /\ Answer(Reply(c, "verify-2fa", 401, "Invalid verification code", NoUser))
               /\ userStorage' = updateUser(userStorage, id, [twoFactorSecret |-> NoSecret])
               /\ UNCHANGED sessionStore
          ELSE /\ userStorage' = updateLastLogin(userStorage, id)
               /\ login(c, id)
               /\ Answer(Reply(c, "verify-2fa", 200, "user", id))
    /\ UNCHANGED <<backend, paymentStorage, stripe, pc, req, now>>

Verify2FA(c, userId, token) ==
    /\ LET id == getUser(userId)
       IN IF userId = NoUser
          THEN /\ Answer(Reply(c, "verify-2fa", 400, "User ID is required", NoUser))
               /\ UNCHANGED <<userStorage, sessionStore>>
          ELSE IF id = NoUser \/ userStorage[id].twoFactorSecret = NoSecret
          THEN /\ Answer(Reply(c, "verify-2fa", 400, "Invalid user or 2FA not setup", NoUser))
               /\ UNCHANGED <<userStorage, sessionStore>>
          ELSE IF ~totpVerify(userStorage[id].twoFactorSecret, token, now)
          THEN /\ Answer(Reply(c, "verify-2fa", 401, "Invalid verification code", NoUser))
               /\ UNCHANGED <<userStorage, sessionStore>>
          ELSE /\ userStorage' = updateLastLogin(userStorage, id)
               /\ login(c, id)
               /\ Answer(Reply(c, "verify-2fa", 200, "user", id))
    /\ UNCHANGED <<backend, paymentStorage, stripe, pc, req, now>>

\* ------------------------------------------------ POST /api/web3-login
\* a parsed SIWE message: the signer's checksum address and the two times;
\* the signature is named by the wallet whose key made it
createSiweMessage(address, t) ==
    [address |-> address, issuedAt |-> t, expirationTime |-> NoExpiration]

\* a text new SiweMessage(message) cannot parse: it has no address line
MalformedMessage == [address |-> Null, issuedAt |-> 1, expirationTime |-> NoExpiration]

siweParses(message) == message.address # Null

Messages ==
    {MalformedMessage}
    \cup {createSiweMessage(w, t) : w \in Wallets, t \in 1 .. MaxTime}
    \cup {[address |-> w, issuedAt |-> t, expirationTime |-> t + 1] :
             w \in Wallets, t \in 1 .. MaxTime}

\* SiweMessage.verify({signature}): the recovered signer is the message's
\* address, and an expiration time, when the message carries one, is ahead
siweVerify(message, signature, t) ==
    /\ signature = message.address
    /\ message.expirationTime # NoExpiration => t < message.expirationTime

WalletUserData(address, salt) ==
    [ username |-> <<"wallet_">> \o Slice8(address),
      email |-> Slice10(address) \o <<"@wallet.eth">>,
      password |-> hashPassword("random", salt),
      walletAddress |-> address,
      authType |-> "web3" ]

\* variant: a message is refused once the identity has logged in since the
\* message was issued
Web3LoginOnce(c, address, signature, message) ==
    /\ Idle(c)
    /\ IF ~siweParses(message) \/ ~siweVerify(message, signature, now)
       THEN /\ Respond(c, Reply(c, "web3-login", 401, "Invalid signature", NoUser))
            /\ UNCHANGED <<userStorage, sessionStore>>
       ELSE IF toLowerCase(message.address) # toLowerCase(address)
       THEN /\ Respond(c, Reply(c, "web3-login", 401, "Address mismatch", NoUser))
            /\ UNCHANGED <<userStorage, sessionStore>>
       ELSE \E id \in getUserByWalletAddress(address) :
               IF id # NoUser /\ userStorage[id].lastLogin >= message.issuedAt
               THEN /\ Respond(c, Reply(c, "web3-login", 401, "Invalid signature", NoUser))
                    /\ UNCHANGED <<userStorage, sessionStore>>
               ELSE IF id # NoUser
               THEN /\ userStorage' = updateLastLogin(userStorage, id)
                    /\ login(c, id)
                    /\ Respond(c, Reply(c, "web3-login", 200, "user", id))
               ELSE /\ Room
                    /\ pc' = [pc EXCEPT ![c] = "web3_hash"]
                    /\ req' = [req EXCEPT ![c] = [op |-> "web3-login", address |-> address,
                                                    message |-> message]]
                    /\ response' = NoResponse
                    /\ UNCHANGED <<userStorage, sessionStore>>
    /\ UNCHANGED <<backend, paymentStorage, stripe, now>>

Web3Login(c, address, signature, message) ==
    /\ Idle(c)
    /\ IF ~siweParses(message) \/ ~siweVerify(message, signature, now)
       THEN /\ Respond(c, Reply(c, "web3-login", 401, "Invalid signature", NoUser))
            /\ UNCHANGED <<userStorage, sessionStore>>
       ELSE IF toLowerCase(message.address) # toLowerCase(address)
       THEN /\ Respond(c, Reply(c, "web3-login", 401, "Address mismatch", NoUser))
            /\ UNCHANGED <<userStorage, sessionStore>>
       ELSE \E id \in getUserByWalletAddress(address) :
               IF id # NoUser
               THEN /\ userStorage' = updateLastLogin(userStorage, id)
                    /\ login(c, id)
                    /\ Respond(c, Reply(c, "web3-login", 200, "user", id))
               ELSE /\ Room
                    /\ pc' = [pc EXCEPT ![c] = "web3_hash"]
                    /\ req' = [req EXCEPT ![c] = [op |-> "web3-login", address |-> address,
                                                    message |-> message]]
                    /\ response' = NoResponse
                    /\ UNCHANGED <<userStorage, sessionStore>>
    /\ UNCHANGED <<backend, paymentStorage, stripe, now>>

\* after hashPassword resolves: createUser, updateLastLogin, req.login; a
\* throw of createUser lands in the inner catch
Web3Create(c) ==
    /\ pc[c] = "web3_hash"
    /\ \E salt \in Salts :
         LET userData == WalletUserData(req[c].address, salt)
             id == Len(userStorage) + 1
         IN IF createUserThrows(userData)
            THEN /\ Respond(c, Reply(c, "web3-login", 401, "Invalid signature", NoUser))
                 /\ UNCHANGED <<userStorage, sessionStore>>
            ELSE /\ userStorage' = updateLastLogin(createUser(userData), id)
                 /\ login(c, id)
                 /\ Respond(c, Reply(c, "web3-login", 200, "user", id))
    /\ UNCHANGED <<backend, paymentStorage, stripe, now>>

\* -------------------------------------------------- /api/user/*-2fa
isAuthenticated(c) == sessionStore[c] # NoUser

\* Every handler below starts with
\*   if (!req.isAuthenticated()) return res.status(401)...
\* an early return that touches nothing: isAuthenticated is their guard.

\* variant: a new secret is pending until a code is verified for it
Setup2FAPending(c, secret) ==
    /\ isAuthenticated(c)
    /\ userStorage' = updateUser(userStorage, sessionStore[c],
                                 [twoFactorSecret |-> secret, is2FAEnabled |-> FALSE])
    /\ Answer(Reply(c, "setup-2fa", 200, "qrCodeUrl", sessionStore[c]))
    /\ UNCHANGED <<backend, paymentStorage, stripe, sessionStore, pc, req, now>>

Setup2FA(c, secret) ==
    /\ isAuthenticated(c)
    /\ userStorage' = updateUser(userStorage, sessionStore[c],
                                 [twoFactorSecret |-> secret])
    /\ Answer(Reply(c, "setup-2fa", 200, "qrCodeUrl", sessionStore[c]))
    /\ UNCHANGED <<backend, paymentStorage, stripe, sessionStore, pc, req, now>>

Enable2FA(c, token) ==
    /\ isAuthenticated(c)
    /\ LET user == userStorage[sessionStore[c]]
       IN IF user.twoFactorSecret = NoSecret
          THEN /\ Answer(Reply(c, "enable-2fa", 400, "2FA not set up yet", NoUser))
               /\ UNCHANGED userStorage
          ELSE IF ~totpVerify(user.twoFactorSecret, token, now)
          THEN /\ Answer(Reply(c, "enable-2fa", 401, "Invalid verification code", NoUser))
               /\ UNCHANGED userStorage
          ELSE /\ userStorage' = updateUser(userStorage, user.id,
                                            [is2FAEnabled |-> TRUE])
               /\ Answer(Reply(c, "enable-2fa", 200, "2FA enabled successfully", user.id))
    /\ UNCHANGED <<backend, paymentStorage, stripe, sessionStore, pc, req, now>>

\* variant: the flag is cleared and the secret kept
Disable2FAKeepsSecret(c) ==
    /\ isAuthenticated(c)
    /\ userStorage' = updateUser(userStorage, sessionStore[c],
                         [is2FAEnabled |-> FALSE])
    /\ Answer(Reply(c, "disable-2fa", 200, "2FA disabled successfully", sessionStore[c]))
    /\ UNCHANGED <<backend, paymentStorage, stripe, sessionStore, pc, req, now>>

Disable2FA(c) ==
    /\ isAuthenticated(c)
    /\ userStorage' = updateUser(userStorage, sessionStore[c],
                         [is2FAEnabled |-> FALSE, twoFactorSecret |-> NoSecret])
    /\ Answer(Reply(c, "disable-2fa", 200, "2FA disabled successfully", sessionStore[c]))
    /\ UNCHANGED <<backend, paymentStorage, stripe, sessionStore, pc, req, now>>

\* ----------------------------------------------------- POST /api/logout
\* variant: the answer is sent and the session kept
LogoutKeepsSession(c) ==
    /\ isAuthenticated(c)
    /\ Answer(Reply(c, "logout", 200, "Logged out successfully", NoUser))
    /\ UNCHANGED <<backend, paymentStorage, stripe, userStorage, sessionStore, pc, req, now>>

Logout(c) ==
    /\ isAuthenticated(c)
    /\ sessionStore' = [sessionStore EXCEPT ![c] = NoUser]
    /\ Answer(Reply(c, "logout", 200, "Logged out successfully", NoUser))
    /\ UNCHANGED <<backend, paymentStorage, stripe, userStorage, pc, req, now>>

\* ---------------------------------------------------- PATCH /api/user
\* req.body goes to updateUser as it is
UpdateBodies ==
    {[email |-> e] : e \in Emails}
    \cup {[username |-> u] : u \in Usernames}
    \cup {[password |-> Malformed], [role |-> "admin"]}

UpdateProfile(c, body) ==
    /\ isAuthenticated(c)
    /\ IF updateUserThrows(sessionStore[c], body)
       THEN /\ Answer(Reply(c, "user", 500, "Internal Server Error", NoUser))
            /\ UNCHANGED userStorage
       ELSE /\ userStorage' = updateUser(userStorage, sessionStore[c], body)
            /\ Answer(Reply(c, "user", 200, "user", sessionStore[c]))
    /\ UNCHANGED <<backend, paymentStorage, stripe, sessionStore, pc, req, now>>

\* ------------------------------------------ PATCH /api/admin/users/:id
\* variant: the update route without its role check
AdminUpdateAnyCaller(c, userId, body) ==
    /\ isAuthenticated(c)
    /\ IF updateUserThrows(userId, body)
       THEN /\ Answer(Reply(c, "admin", 500, "Failed to update user", NoUser))
            /\ UNCHANGED userStorage
       ELSE /\ userStorage' = updateUser(userStorage, userId, body)
            /\ Answer(Reply(c, "admin", 200, "user", userId))
    /\ UNCHANGED <<backend, paymentStorage, stripe, sessionStore, pc, req, now>>

\* the 403 of a caller who is no admin is an early return (AdminForbidden)
AdminUpdate(c, userId, body) ==
    /\ isAuthenticated(c)
    /\ userStorage[sessionStore[c]].role = "admin"
    /\ IF updateUserThrows(userId, body)
       THEN /\ Answer(Reply(c, "admin", 500, "Failed to update user", NoUser))
            /\ UNCHANGED userStorage
       ELSE /\ userStorage' = updateUser(userStorage, userId, body)
            /\ Answer(Reply(c, "admin", 200, "user", userId))
    /\ UNCHANGED <<backend, paymentStorage, stripe, sessionStore, pc, req, now>>

\* ------------------------------------------------------------- clock
\* one tick is one TOTP step
Tick ==
    /\ now < MaxTime
    /\ now' = now + 1
    /\ response' = NoResponse
    /\ UNCHANGED <<backend, paymentStorage, stripe, userStorage, sessionStore, pc, req>>

Next ==
    \/ \E c \in Clients, body \in RegisterBodies : Register(c, body)
    \/ \E c \in Clients : RegisterCreate(c)
    \/ \E c \in Clients, u \in Usernames, p \in Passwords : Login(c, u, p)
    \/ \E c \in Clients : LoginFinish(c)
    \/ \E c \in Clients, id \in 0 .. MaxUsers, token \in Tokens : Verify2FA(c, id, token)
    \/ \E c \in Clients, a \in Addresses, w \in Wallets, m \in Messages :
          Web3Login(c, a, w, m)
    \/ \E c \in Clients : Web3Create(c)
    \/ \E c \in Clients, secret \in Secrets : Setup2FA(c, secret)
    \/ \E c \in Clients, token \in Tokens : Enable2FA(c, token)
    \/ \E c \in Clients : Disable2FA(c)
    \/ \E c \in Clients : Logout(c)
    \/ \E c \in Clients, body \in UpdateBodies : UpdateProfile(c, body)
    \/ \E c \in Clients, id \in UserIds, body \in UpdateBodies : AdminUpdate(c, id, body)
    \/ Tick

Spec == Init /\ [][Next]_vars

\* ---------------------------------------------------------------------
\* The credential and second-factor flows: registration without wallet
\* fields, login, verify-2fa, the 2FA settings, logout, a profile update
\* that overwrites the password column, and the clock.
CredentialBodies ==
    {b \in RegisterBodies : b.walletAddress = Null /\ b.authType = ""
                            /\ toLowerCase(b.email) = <<"a@x">>
                            /\ (b.username = <<"al">>) = (b.email = <<"a@x">>)}

AuthClients == {"c1"}

NextAuth ==
    \/ \E c \in AuthClients, body \in CredentialBodies : Register(c, body)
    \/ \E c \in AuthClients : RegisterCreate(c)
    \/ \E c \in AuthClients, u \in Usernames, p \in Passwords : Login(c, u, p)
    \/ \E c \in AuthClients : LoginFinish(c)
    \/ \E c \in AuthClients, id \in 0 .. MaxUsers, token \in Tokens : Verify2FA(c, id, token)
    \/ \E c \in AuthClients, secret \in Secrets : Setup2FA(c, secret)
    \/ \E c \in AuthClients, token \in Tokens : Enable2FA(c, token)
    \/ \E c \in AuthClients : Disable2FA(c)
    \/ \E c \in AuthClients : Logout(c)
    \/ \E c \in AuthClients : UpdateProfile(c, [password |-> Malformed])
    \/ Tick

SpecAuth == Init /\ [][NextAuth]_vars

\* Registration, the second-factor routes, logout and the clock: the same
\* flows when nobody ever posts to /api/login.
NextNoLogin ==
    \/ \E c \in AuthClients, body \in CredentialBodies : Register(c, body)
    \/ \E c \in AuthClients : RegisterCreate(c)
    \/ \E c \in AuthClients, id \in 0 .. MaxUsers, token \in Tokens : Verify2FA(c, id, token)
    \/ \E c \in AuthClients, secret \in Secrets : Setup2FA(c, secret)
    \/ \E c \in AuthClients, token \in Tokens : Enable2FA(c, token)
    \/ \E c \in AuthClients : Disable2FA(c)
    \/ \E c \in AuthClients : Logout(c)
    \/ Tick

SpecNoLogin == Init /\ [][NextNoLogin]_vars

\* ---------------------------------------------------------------------
\* The credential store under registration and updates, with two clients
\* whose requests interleave at the awaits.
PlainBodies == {b \in RegisterBodies : b.walletAddress = Null /\ b.authType = ""}

NextRegister ==
    \/ \E c \in Clients, body \in PlainBodies : Register(c, body)
    \/ \E c \in Clients : RegisterCreate(c)
    \/ \E c \in Clients : Logout(c)
    \/ \E c \in Clients, body \in UpdateBodies : UpdateProfile(c, body)
    \/ \E c \in Clients, id \in UserIds, body \in UpdateBodies : AdminUpdate(c, id, body)

SpecRegister == Init /\ [][NextRegister]_vars

\* ---------------------------------------------------------------------
\* Wallet login, with two clients and the clock.
NextWallet ==
    \/ \E c \in Clients, a \in Addresses, w \in Wallets, m \in Messages :
          Web3Login(c, a, w, m)
    \/ \E c \in Clients : Web3Create(c)
    \/ \E c \in Clients : Logout(c)
    \/ Tick

SpecWallet == Init /\ [][NextWallet]_vars

\* =====================================================================
\* Properties
\* =====================================================================

\* a step in which the login strategy finishes for client c, having looked
\* up `user` and compared the supplied password with that user's record
Compared(c) == pc[c] = "login_compare" /\ pc'[c] = "idle"
PasswordValid(c) == comparePasswords(req[c].password, req[c].user.password) = "true"

\* C1: a credential login whose password verifies for an identity whose
\* second-factor flag is set answers "2FA verification required" with that
\* identity's id, establishes no session and writes nothing to the store
\* (last-login included); the flag is the identity's own flag as the lookup
\* read it. No step of the login handler gives such an identity a session.
C1_SecondFactorGate ==
    [][\A c \in Clients :
         /\ (pc[c] = "idle" /\ pc'[c] = "login_compare")
              => req'[c].user = Snapshot(userStorage[req'[c].user.id])
         /\ (Compared(c) /\ PasswordValid(c) /\ req[c].user.is2FAEnabled)
              => /\ response' = Reply(c, "login", 200, "2FA verification required",
                                      req[c].user.id)
                 /\ sessionStore' = sessionStore
                 /\ userStorage' = userStorage]_vars

C1_Witness ==
    \E c \in Clients :
       /\ response.op = "login" /\ response.client = c
       /\ response.message = "2FA verification required"
       /\ response.userId \in Ids
       /\ userStorage[response.userId].is2FAEnabled
       /\ sessionStore[c] = NoUser

\* C2: when no credential login is ever submitted -- so no password check
\* precedes anything -- verify-2fa gives no client a session it did not have.
C2_NoSessionWithoutPasswordCheck ==
    [][\A c \in Clients :
         (response'.op = "verify-2fa" /\ response'.client = c)
            => sessionStore'[c] = sessionStore[c]]_vars

\* C3: verify-2fa for an identity with a stored secret: a token that is the
\* secret's code for the current step or one step either side writes
\* last-login and binds the client's session to exactly that identity; any
\* other token is answered 401 "Invalid verification code" and leaves the
\* sessions and the store as they were.
InWindow(secret, token) ==
    \E step \in (now - TotpWindow) .. (now + TotpWindow) : token = totp(secret, step)

C4_DirectLogin ==
    [][\A c \in Clients :
         (Compared(c) /\ PasswordValid(c) /\ ~req[c].user.is2FAEnabled)
            => /\ response' = Reply(c, "login", 200, "user", req[c].user.id)
               /\ sessionStore' = [sessionStore EXCEPT ![c] = req[c].user.id]
               /\ userStorage' =
                    [userStorage EXCEPT ![req[c].user.id].lastLogin = now]]_vars

C4_Witness ==
    \E c \in Clients :
       /\ response = Reply(c, "login", 200, "user", sessionStore[c])
       /\ sessionStore[c] \in Ids
       /\ ~userStorage[sessionStore[c]].is2FAEnabled
       /\ userStorage[sessionStore[c]].lastLogin = now
       /\ now > 1

\* C5: every login answer for a password that does not match -- the lookup
\* found nobody, or the supplied password is not the one of the record
\* found -- is the same 401 "Incorrect username or password", with the
\* store and the sessions untouched.
C5_UniformRejection ==
    [][\A c \in Clients :
         (/\ response'.op = "login" /\ response'.client = c
          /\ (pc[c] = "idle" \/ (Compared(c) /\ ~PasswordValid(c))))
            => /\ response' = Reply(c, "login", 401, IncorrectMessage, NoUser)
               /\ sessionStore' = sessionStore
               /\ userStorage' = userStorage]_vars


\* two strings equal ignoring case
SameIgnoringCase(x, y) == toLowerCase(x) = toLowerCase(y)

\* C6: a register request that creates an identity does so only when no
\* stored identity has its username or its email, compared ignoring case --
\* whether the requests run one after the other or interleave.
C6_RegisterRejectsTaken ==
    [][\A c \in Clients :
         (/\ response'.op = "register" /\ response'.client = c
          /\ Len(userStorage') > Len(userStorage))
            => \A i \in Ids :
                  /\ ~SameIgnoringCase(userStorage[i].username, req[c].body.username)
                  /\ ~SameIgnoringCase(userStorage[i].email, req[c].body.email)]_vars

\* C7: no two distinct identities have usernames that are equal ignoring
\* case, nor emails that are equal ignoring case.
C7_UniqueUsernameAndEmail ==
    \A i, j \in Ids :
       i # j => /\ ~SameIgnoringCase(userStorage[i].username, userStorage[j].username)
                /\ ~SameIgnoringCase(userStorage[i].email, userStorage[j].email)

\* C8: a verified wallet login from an address with no identity creates one
\* identity of auth-type web3 with that address and binds the session to it;
\* a verified wallet login from an address that, ignoring case, some
\* identity already has goes on to create nothing.
HasWallet(address) ==
    \E i \in Ids : /\ userStorage[i].walletAddress # Null
                   /\ SameIgnoringCase(userStorage[i].walletAddress, address)

C8_WalletResolvesToOneIdentity ==
    [][\A c \in Clients :
         /\ (pc[c] = "idle" /\ pc'[c] = "web3_hash") => ~HasWallet(req'[c].address)
         /\ (/\ pc[c] = "web3_hash" /\ response'.client = c
             /\ Len(userStorage') > Len(userStorage))
              => LET id == Len(userStorage')
                 IN /\ userStorage'[id].authType = "web3"
                    /\ userStorage'[id].walletAddress = req[c].address
                    /\ sessionStore'[c] = id]_vars

\* C9: no two distinct identities have wallet addresses that are equal
\* ignoring case.
C9_UniqueWalletAddress ==
    \A i, j \in Ids :
       (i # j /\ userStorage[i].walletAddress # Null /\ userStorage[j].walletAddress # Null)
          => ~SameIgnoringCase(userStorage[i].walletAddress, userStorage[j].walletAddress)

\* C10: a wallet login that creates its identity and binds a session was
\* made with a message that carries an expiration time and whose interval
\* [issued-at, expiration-at] holds the current time.
C10_WalletLoginWithinWindow ==
    [][\A c \in Clients :
         (/\ pc[c] = "web3_hash" /\ pc'[c] = "idle"
          /\ response' = Reply(c, "web3-login", 200, "user", sessionStore'[c]))
            => LET m == req[c].message
               IN /\ m.expirationTime # NoExpiration
                  /\ m.issuedAt <= now
                  /\ now <= m.expirationTime]_vars

\* why a wallet login is refused, in the order the handler meets the causes
WalletFailure(address, signature, message, t) ==
    IF ~siweParses(message) THEN "malformed"
    ELSE IF signature # message.address THEN "signature"
    ELSE IF message.expirationTime # NoExpiration /\ t >= message.expirationTime
    THEN "expired"
    ELSE IF toLowerCase(message.address) # toLowerCase(address) THEN "address"
    ELSE "none"

\* C11: a wallet login refused because its message cannot be parsed, or
\* because its message has expired, is not answered with the answer a wrong
\* signature gets ("Invalid signature"): the causes have answers of their own.
C11_DistinctWalletErrors ==
    \A c \in Clients, a \in Addresses, w \in Wallets, m \in Messages :
       (pc[c] = "idle" /\ WalletFailure(a, w, m, now) \in {"malformed", "expired"})
          => ~ENABLED (/\ Web3Login(c, a, w, m)
                       /\ response'.message = "Invalid signature")

\* C12: a wallet login whose createUser throws (the store refuses the
\* insert) is answered as an internal failure (500), not with the 401
\* "Invalid signature" of a refused signature.
C12_StoreFailureIsInternal ==
    [][\A c \in Clients :
         (/\ pc[c] = "web3_hash" /\ pc'[c] = "idle" /\ response'.client = c
          /\ userStorage' = userStorage)
            => /\ response'.status = 500
               /\ response'.message # "Invalid signature"]_vars

\* ---------------------------------------------------------------------
\* Registration with every body insertUserSchema lets through.
NextSignup ==
    \/ \E c \in Clients, body \in RegisterBodies : Register(c, body)
    \/ \E c \in Clients : RegisterCreate(c)
    \/ \E c \in Clients : Logout(c)

SpecSignup == Init /\ [][NextSignup]_vars

\* C13: the identity a register request creates has auth-type "email"
\* (credential), the second-factor flag clear, no second-factor secret and
\* role "user", whatever the body carried, and the client's session is bound
\* to it in the same request.
C13_RegisterDefaults ==
    [][\A c \in Clients :
         (/\ response'.op = "register" /\ response'.client = c
          /\ Len(userStorage') > Len(userStorage))
            => LET user == userStorage'[Len(userStorage')]
               IN /\ user.authType = "email"
                  /\ ~user.is2FAEnabled
                  /\ user.twoFactorSecret = NoSecret
                  /\ user.role = "user"
                  /\ sessionStore'[c] = user.id]_vars

\* ---------------------------------------------------------------------
\* POST /api/user/enable-2fa with DatabaseStorage: storage.getUser and
\* storage.updateUser are two round trips to the database, and other
\* requests are served between them. (With MemStorage both resolve without
\* leaving the event loop's current turn: Enable2FA above.)
Enable2FAVerify(c, token) ==
    /\ backend = "db"
    /\ Idle(c)
    /\ isAuthenticated(c)
    /\ LET user == userStorage[sessionStore[c]]
       IN IF user.twoFactorSecret = NoSecret
          THEN /\ Answer(Reply(c, "enable-2fa", 400, "2FA not set up yet", NoUser))
               /\ UNCHANGED <<pc, req>>
          ELSE IF ~totpVerify(user.twoFactorSecret, token, now)
          THEN /\ Answer(Reply(c, "enable-2fa", 401, "Invalid verification code", NoUser))
               /\ UNCHANGED <<pc, req>>
          ELSE /\ pc' = [pc EXCEPT ![c] = "enable_update"]
               /\ req' = [req EXCEPT ![c] =
                            [op |-> "enable-2fa",
                             user |-> [id |-> user.id,
                                       twoFactorSecret |-> user.twoFactorSecret]]]
               /\ response' = NoResponse
    /\ UNCHANGED <<backend, paymentStorage, stripe, userStorage, sessionStore, now>>

\* update users set is_2fa_enabled = true where id = user.id
Enable2FAUpdate(c) ==
    /\ pc[c] = "enable_update"
    /\ userStorage' = updateUser(userStorage, req[c].user.id, [is2FAEnabled |-> TRUE])
    /\ Respond(c, Reply(c, "enable-2fa", 200, "2FA enabled successfully", req[c].user.id))
    /\ UNCHANGED <<backend, paymentStorage, stripe, sessionStore, now>>

\* Credential login and the second-factor settings of one client.
NextSettings ==
    \/ \E c \in AuthClients, body \in CredentialBodies : Register(c, body)
    \/ \E c \in AuthClients : RegisterCreate(c)
    \/ \E c \in AuthClients, u \in Usernames, p \in Passwords : Login(c, u, p)
    \/ \E c \in AuthClients : LoginFinish(c)
    \/ \E c \in AuthClients, secret \in Secrets : Setup2FA(c, secret)
    \/ \E c \in AuthClients, token \in Tokens : Enable2FA(c, token)
    \/ \E c \in AuthClients, token \in Tokens : Enable2FAVerify(c, token)
    \/ \E c \in AuthClients : Enable2FAUpdate(c)
    \/ \E c \in AuthClients : Disable2FA(c)
    \/ \E c \in AuthClients : Logout(c)
    \/ Tick

SpecSettings == Init /\ [][NextSettings]_vars

\* C14: a step of enable-2fa that answers "2FA enabled successfully" leaves
\* the identity with the flag set and with the very secret the handler
\* verified the code against -- the one it read -- whatever setup-2fa and
\* disable-2fa requests were served in between.
C14_FlagOnlyForVerifiedSecret ==
    [][\A c \in Clients :
         (/\ response'.op = "enable-2fa" /\ response'.client = c
          /\ response'.status = 200)
            => LET id == response'.userId
                   verified == IF pc[c] # pc'[c]
                               THEN req[c].user.twoFactorSecret
                               ELSE userStorage[id].twoFactorSecret
               IN /\ verified # NoSecret
                  /\ userStorage'[id].is2FAEnabled
                  /\ userStorage'[id].twoFactorSecret = verified]_vars

\* C15: setup-2fa with a session stores a generated secret on the caller's
\* identity and changes nothing else -- the flag and every other field of
\* every identity and all sessions stay as they were, also when the flag is
\* already set; and a credential login of an identity whose flag is clear
\* goes directly to a session, whatever secret is stored.
C15_SetupStoresSecretOnly ==
    [][\A c \in Clients :
         /\ (response'.op = "setup-2fa" /\ response'.client = c)
              => /\ \E secret \in Secrets :
                      userStorage' =
                         [userStorage EXCEPT ![sessionStore[c]].twoFactorSecret = secret]
                 /\ sessionStore' = sessionStore
                 /\ response'.status = 200
         /\ (/\ Compared(c) /\ PasswordValid(c)
             /\ ~userStorage[req[c].user.id].is2FAEnabled
             /\ ~req[c].user.is2FAEnabled)
              => /\ response' = Reply(c, "login", 200, "user", req[c].user.id)
                 /\ sessionStore'[c] = req[c].user.id]_vars

C15_Witness ==
    \E c \in Clients :
       /\ response = Reply(c, "setup-2fa", 200, "qrCodeUrl", sessionStore[c])
       /\ sessionStore[c] \in Ids
       /\ userStorage[sessionStore[c]].is2FAEnabled
       /\ userStorage[sessionStore[c]].twoFactorSecret # NoSecret

\* C16: disable-2fa with a session clears the flag and the secret of the
\* caller's identity in one write and changes nothing else; a credential
\* login that then reads the identity reads the flag clear, and with the
\* right password it is answered with the user and a session.
C16_DisableClearsBoth ==
    [][\A c \in Clients :
         /\ (response'.op = "disable-2fa" /\ response'.client = c)
              => /\ userStorage' =
                      [userStorage EXCEPT ![sessionStore[c]].is2FAEnabled = FALSE,
                                          ![sessionStore[c]].twoFactorSecret = NoSecret]
                 /\ sessionStore' = sessionStore
                 /\ response'.status = 200
         /\ (/\ pc[c] = "idle" /\ pc'[c] = "login_compare"
             /\ userStorage[req'[c].user.id].twoFactorSecret = NoSecret
             /\ ~userStorage[req'[c].user.id].is2FAEnabled)
              => ~req'[c].user.is2FAEnabled
         /\ (Compared(c) /\ PasswordValid(c) /\ ~req[c].user.is2FAEnabled)
              => /\ response' = Reply(c, "login", 200, "user", req[c].user.id)
                 /\ sessionStore'[c] = req[c].user.id]_vars

C16_Witness ==
    \E c \in Clients :
       /\ response = Reply(c, "disable-2fa", 200, "2FA disabled successfully",
                           sessionStore[c])
       /\ sessionStore[c] \in Ids
       /\ ~userStorage[sessionStore[c]].is2FAEnabled
       /\ userStorage[sessionStore[c]].twoFactorSecret = NoSecret
       /\ now > 1

\* ------------------------------------------------------- GET /api/user
GetUser(c) ==
    /\ IF isAuthenticated(c)
       THEN Answer(Reply(c, "get-user", 200, "user", sessionStore[c]))
       ELSE Answer(Reply(c, "get-user", 401, "Not authenticated", NoUser))
    /\ UNCHANGED <<backend, paymentStorage, stripe, userStorage, sessionStore, pc, req, now>>

\* One client's session: registration (which logs in), the routes that ask
\* for a session, logout, and the clock.
NextSession ==
    \/ \E c \in AuthClients, body \in CredentialBodies : Register(c, body)
    \/ \E c \in AuthClients : RegisterCreate(c)
    \/ \E c \in AuthClients : GetUser(c)
    \/ \E c \in AuthClients, secret \in Secrets : Setup2FA(c, secret)
    \/ \E c \in AuthClients, token \in Tokens : Enable2FA(c, token)
    \/ \E c \in AuthClients : Disable2FA(c)
    \/ \E c \in AuthClients : Logout(c)
    \/ Tick

SpecSession == Init /\ [][NextSession]_vars

\* C17: logout leaves the client's session resolving to nobody, and while a
\* client's session resolves to nobody GET /api/user answers 401 and no
\* route that asks for a session does anything for that client.
C17_RevokedIsUnauthenticated ==
    \A c \in Clients :
       /\ ~ENABLED (Logout(c) /\ isAuthenticated(c)')
       /\ ~isAuthenticated(c) =>
            /\ ENABLED GetUser(c)
            /\ ~ENABLED (/\ GetUser(c)
                         /\ response' # Reply(c, "get-user", 401, "Not authenticated",
                                              NoUser))
            /\ \A secret \in Secrets : ~ENABLED Setup2FA(c, secret)
            /\ \A token \in Tokens :
                  ~ENABLED Enable2FA(c, token) /\ ~ENABLED Enable2FAVerify(c, token)
            /\ ~ENABLED Disable2FA(c)
            /\ \A body \in UpdateBodies :
                  /\ ~ENABLED UpdateProfile(c, body)
                  /\ \A id \in UserIds : ~ENABLED AdminUpdate(c, id, body)

C17_Witness ==
    \E c \in AuthClients :
       /\ response = Reply(c, "get-user", 401, "Not authenticated", NoUser)
       /\ Len(userStorage) > 0
       /\ pc[c] = "idle"
       /\ ~isAuthenticated(c)

\* ---------------------------------------------------------------------
\* Credential login from two clients whose requests interleave.
NextLogins ==
    \/ \E c \in Clients, body \in CredentialBodies : Register(c, body)
    \/ \E c \in Clients : RegisterCreate(c)
    \/ \E c \in Clients, u \in Usernames, p \in Passwords : Login(c, u, p)
    \/ \E c \in Clients : LoginFinish(c)
    \/ \E c \in Clients : Logout(c)

SpecLogins == Init /\ [][NextLogins]_vars

\* C18: a credential login with the right password finishes with a session
\* of its own client whatever the other client's login is doing, and leaves
\* the other client's session as it was; logout ends the session of its own
\* client and leaves the other client's session as it was.
C18_IndependentSessions ==
    [][\A c \in Clients :
         /\ (Compared(c) /\ PasswordValid(c) /\ ~req[c].user.is2FAEnabled)
              => /\ response' = Reply(c, "login", 200, "user", req[c].user.id)
                 /\ sessionStore'[c] = req[c].user.id
                 /\ \A d \in Clients \ {c} : sessionStore'[d] = sessionStore[d]
         /\ (response'.op = "logout" /\ response'.client = c)
              => /\ sessionStore'[c] = NoUser
                 /\ \A d \in Clients \ {c} : sessionStore'[d] = sessionStore[d]]_vars

\* both logins were in flight together; one has finished with its session,
\* the other is about to finish for the same identity
C18_Witness ==
    \E c, d \in Clients :
       /\ c # d
       /\ response = Reply(c, "login", 200, "user", sessionStore[c])
       /\ sessionStore[c] \in Ids
       /\ sessionStore[d] = NoUser
       /\ pc[d] = "login_compare"
       /\ req[d].user.id = sessionStore[c]
       /\ PasswordValid(d)
       /\ userStorage[sessionStore[c]].lastLogin = now

\* ---------------------------------------------------------------------
\* The three ways in of one client: password, second factor, wallet. The
\* wallet requests claim the first wallet's address with a message that does
\* not parse, a message of that wallet or a message of the other wallet,
\* signed by either wallet.
AttemptMessages ==
    {MalformedMessage, createSiweMessage(Wallet1, 1), createSiweMessage(Wallet2, 1)}

NextAttempts ==
    \/ \E c \in AuthClients, body \in CredentialBodies : Register(c, body)
    \/ \E c \in AuthClients : RegisterCreate(c)
    \/ \E c \in AuthClients, u \in Usernames, p \in Passwords : Login(c, u, p)
    \/ \E c \in AuthClients : LoginFinish(c)
    \/ \E c \in AuthClients, secret \in Secrets : Setup2FA(c, secret)
    \/ \E c \in AuthClients, id \in 0 .. MaxUsers, token \in Tokens : Verify2FA(c, id, token)
    \/ \E c \in AuthClients, w \in Wallets, m \in AttemptMessages :
          Web3Login(c, Wallet1, w, m)
    \/ \E c \in AuthClients : Web3Create(c)
    \/ Tick

SpecAttempts == Init /\ [][NextAttempts]_vars

\* C19: a login, verify-2fa or wallet login that is answered 401 ends the
\* request and leaves the store and every session as they were; and a
\* credential login whose password verifies is answered 200 whatever was
\* answered before it.
C19_FailedAttemptsChangeNothing ==
    [][\A c \in Clients :
         /\ (/\ response'.client = c
             /\ response'.op \in {"login", "verify-2fa", "web3-login"}
             /\ response'.status = 401)
              => /\ userStorage' = userStorage
                 /\ sessionStore' = sessionStore
                 /\ pc'[c] \in {pc[c], "idle"}
         /\ (Compared(c) /\ PasswordValid(c)) => response'.status = 200]_vars

C19_Witness ==
    \E c \in Clients, id \in Ids :
       /\ response = Reply(c, "verify-2fa", 401, "Invalid verification code", NoUser)
       /\ userStorage[id].twoFactorSecret # NoSecret
       /\ now > 1

\* ---------------------------------------------------------------------
\* One signed message, posted again and again: the only wallet request is
\* the triple (ReplayMessage, its wallet's signature, its address).
ReplayMessage ==
    [address |-> Wallet1, issuedAt |-> 1, expirationTime |-> MaxTime]

NextReplay ==
    \/ \E c \in Clients : Web3Login(c, Wallet1, Wallet1, ReplayMessage)
    \/ \E c \in Clients : Web3Create(c)
    \/ \E c \in Clients : Logout(c)
    \/ Tick

SpecReplay == Init /\ [][NextReplay]_vars

\* C20: once the triple has created its identity, posting the same triple
\* again before the message expires is accepted every time: the handler
\* answers 200 and binds the client's session to that same identity, and
\* creates nothing.
C20_ReplayAccepted ==
    \A c \in Clients :
       (/\ pc[c] = "idle"
        /\ now < ReplayMessage.expirationTime
        /\ \E i \in Ids : userStorage[i].walletAddress = Wallet1)
          => /\ ENABLED Web3Login(c, Wallet1, Wallet1, ReplayMessage)
             /\ ~ENABLED (/\ Web3Login(c, Wallet1, Wallet1, ReplayMessage)
                          /\ ~(\E i \in Ids :
                                 /\ userStorage[i].walletAddress = Wallet1
                                 /\ response' = Reply(c, "web3-login", 200, "user", i)
                                 /\ sessionStore'[c] = i
                                 /\ Len(userStorage') = Len(userStorage)))

\* two sessions for the one identity the triple created
C20_Witness ==
    /\ Len(userStorage) = 1
    /\ \A c \in Clients : sessionStore[c] = 1
    /\ response.op = "web3-login" /\ response.status = 200
    /\ now < ReplayMessage.expirationTime

\* =====================================================================
\* POST /api/user/change-password
\* =====================================================================

\* stored password values that hashPassword never produces: a digest of
\* fewer than 64 bytes (too short, or cut at its first non-hex character),
\* and a full digest followed by '.' and an empty salt
ShortDigest == <<<<"ab">>, "s1">>
EmptySalt == <<scrypt("p1", "s1"), "">>
MalformedRecords == {Malformed, ShortDigest, EmptySalt}

WellFormed(stored) ==
    /\ Len(stored) = 2
    /\ Len(stored[1]) = 2
    /\ stored[2] \in Salts

\* body: {currentPassword, newPassword}; storage.getUser(req.user.id), then
\* the await on comparePasswords
ChangePassword(c, currentPassword, newPassword) ==
    /\ Idle(c)
    /\ isAuthenticated(c)
    /\ LET id == getUser(sessionStore[c])
       IN IF id = NoUser
          THEN Respond(c, Reply(c, "change-password", 404, "User not found", NoUser))
          ELSE /\ pc' = [pc EXCEPT ![c] = "change_compare"]
               /\ req' = [req EXCEPT ![c] =
                            [op |-> "change-password",
                             user |-> [id |-> id, password |-> userStorage[id].password],
                             currentPassword |-> currentPassword,
                             newPassword |-> newPassword]]
               /\ response' = NoResponse
    /\ UNCHANGED <<backend, paymentStorage, stripe, userStorage, sessionStore, now>>

\* variant: the new hash is written whatever comparePasswords answered
ChangePasswordUnchecked(c) ==
    /\ pc[c] = "change_compare"
    /\ pc' = [pc EXCEPT ![c] = "change_hash"]
    /\ response' = NoResponse
    /\ UNCHANGED <<backend, paymentStorage, stripe, userStorage, sessionStore, req, now>>

\* after comparePasswords resolves: 401, or on to the await on hashPassword
ChangePasswordCompare(c) ==
    /\ pc[c] = "change_compare"
    /\ LET isValid == comparePasswords(req[c].currentPassword, req[c].user.password)
       IN CASE isValid = "throw" ->
                 Respond(c, Reply(c, "change-password", 500, "Internal Server Error", NoUser))
            [] isValid = "false" ->
                 Respond(c, Reply(c, "change-password", 401,
                                  "Current password is incorrect", NoUser))
            [] isValid = "true" ->
                 /\ pc' = [pc EXCEPT ![c] = "change_hash"]
                 /\ response' = NoResponse
                 /\ UNCHANGED req
    /\ UNCHANGED <<backend, paymentStorage, stripe, userStorage, sessionStore, now>>

\* after hashPassword resolves: updateUser(user.id, {password})
ChangePasswordUpdate(c) ==
    /\ pc[c] = "change_hash"
    /\ \E salt \in Salts :
         LET updates == [password |-> hashPassword(req[c].newPassword, salt)]
         IN IF updateUserThrows(req[c].user.id, updates)
            THEN /\ Respond(c, Reply(c, "change-password", 500, "Internal Server Error", NoUser))
                 /\ UNCHANGED userStorage
            ELSE /\ userStorage' = updateUser(userStorage, req[c].user.id, updates)
                 /\ Respond(c, Reply(c, "change-password", 200,
                                     "Password updated successfully", req[c].user.id))
    /\ UNCHANGED <<backend, paymentStorage, stripe, sessionStore, now>>

\* Credential login and change-password of one client, with a profile
\* update that overwrites the password column.
NextPassword ==
    \/ \E c \in AuthClients, body \in CredentialBodies : Register(c, body)
    \/ \E c \in AuthClients : RegisterCreate(c)
    \/ \E c \in AuthClients, u \in Usernames, p \in Passwords : Login(c, u, p)
    \/ \E c \in AuthClients : LoginFinish(c)
    \/ \E c \in AuthClients, p \in Passwords, q \in Passwords : ChangePassword(c, p, q)
    \/ \E c \in AuthClients : ChangePasswordCompare(c)
    \/ \E c \in AuthClients : ChangePasswordUpdate(c)
    \/ \E c \in AuthClients, m \in MalformedRecords : UpdateProfile(c, [password |-> m])
    \/ \E c \in AuthClients : Logout(c)

SpecPassword == Init /\ [][NextPassword]_vars

\* C21: a stored password record that is malformed makes comparePasswords
\* answer false without an error: a login that compares against such a
\* record is answered 401 "Incorrect username or password", and a
\* change-password that compares against it is answered 401 "Current
\* password is incorrect".
C21_MalformedFailsClosed ==
    [][\A c \in Clients :
          /\ (Compared(c) /\ ~WellFormed(req[c].user.password))
                => response' = Reply(c, "login", 401, IncorrectMessage, NoUser)
          /\ (pc[c] = "change_compare" /\ pc'[c] # "change_compare"
                /\ ~WellFormed(req[c].user.password))
                => response' = Reply(c, "change-password", 401,
                                     "Current password is incorrect", NoUser)]_vars

\* =====================================================================
\* The lookups of the two storage classes, on the same table contents
\* =====================================================================
MemGetUserByUsername(username) ==
    MemFind({i \in Ids : toLowerCase(userStorage[i].username) = toLowerCase(username)})

DbGetUserByUsername(username) ==
    DbFind({i \in Ids : userStorage[i].username = username})

MemGetUserByEmail(email) ==
    MemFind({i \in Ids : toLowerCase(userStorage[i].email) = toLowerCase(email)})

DbGetUserByEmail(email) ==
    DbFind({i \in Ids : userStorage[i].email = email})

MemGetUserByWalletAddress(walletAddress) ==
    MemFind({i \in Ids :
        /\ userStorage[i].walletAddress # Null
        /\ toLowerCase(userStorage[i].walletAddress) = toLowerCase(walletAddress)})

DbGetUserByWalletAddress(walletAddress) ==
    DbFind({i \in Ids : userStorage[i].walletAddress = walletAddress})

\* C22: for the same table contents and the same key, in any letter case,
\* MemStorage and DatabaseStorage look up the same identity (or none) by
\* username, by email and by wallet address.
C22_LookupsAgree ==
    /\ \A u \in Usernames : MemGetUserByUsername(u) = DbGetUserByUsername(u)
    /\ \A e \in Emails : MemGetUserByEmail(e) = DbGetUserByEmail(e)
    /\ \A a \in Addresses : MemGetUserByWalletAddress(a) = DbGetUserByWalletAddress(a)

\* =====================================================================
\* The admin routes
\* =====================================================================
\* req.user is the record passport.deserializeUser reads from the store
\* for the session's user id when the request arrives
isAdmin(c) == isAuthenticated(c) /\ userStorage[sessionStore[c]].role = "admin"

AdminOps == {"admin-users", "admin", "admin-payments"}

\* if (!req.isAuthenticated() || req.user.role !== "admin") return 403
AdminForbidden(c, op) ==
    /\ ~isAdmin(c)
    /\ Answer(Reply(c, op, 403, "Forbidden: Admin access required", NoUser))
    /\ UNCHANGED <<backend, paymentStorage, stripe, userStorage, sessionStore, pc, req, now>>

\* GET /api/admin/users
AdminGetUsers(c) ==
    /\ isAdmin(c)
    /\ Answer(Reply(c, "admin-users", 200, "users", NoUser))
    /\ UNCHANGED <<backend, paymentStorage, stripe, userStorage, sessionStore, pc, req, now>>

\* GET /api/admin/payments
AdminGetPayments(c) ==
    /\ isAdmin(c)
    /\ Answer(Reply(c, "admin-payments", 200, "payments", NoUser))
    /\ UNCHANGED <<backend, paymentStorage, stripe, userStorage, sessionStore, pc, req, now>>

RoleBodies == {[role |-> "admin"], [role |-> "user"], [isPremium |-> TRUE]}

\* Two clients that register, rewrite their own records, call the admin
\* routes and log out.
NextAdmin ==
    \/ \E c \in Clients, body \in CredentialBodies : Register(c, body)
    \/ \E c \in Clients : RegisterCreate(c)
    \/ \E c \in Clients, body \in RoleBodies : UpdateProfile(c, body)
    \/ \E c \in Clients, op \in AdminOps : AdminForbidden(c, op)
    \/ \E c \in Clients : AdminGetUsers(c)
    \/ \E c \in Clients, id \in UserIds, body \in RoleBodies : AdminUpdate(c, id, body)
    \/ \E c \in Clients : AdminGetPayments(c)
    \/ \E c \in Clients : Logout(c)

SpecAdmin == Init /\ [][NextAdmin]_vars

\* C23: a request to an admin route is served only when its session
\* resolves to an identity whose stored role is admin; every other caller,
\* with a session or without, is answered 403 and no user record and no
\* payment record changes.
C23_AdminRoutesNeedAdmin ==
    [][\A c \in Clients :
          (response'.client = c /\ response'.op \in AdminOps)
             => /\ isAdmin(c) => response'.status # 403
                /\ ~isAdmin(c) => /\ response'.status = 403
                                  /\ userStorage' = userStorage
                                  /\ paymentStorage' = paymentStorage]_vars

\* a caller with a session and role user was refused the update route
\* while another identity is admin
C23_Witness ==
    /\ response.op = "admin"
    /\ response.status = 403
    /\ isAuthenticated(response.client)
    /\ ~isAdmin(response.client)
    /\ \E i \in Ids : userStorage[i].role = "admin"

\* C24: change-password writes a new hash only for a request whose current
\* password verified against the hash the handler read; a request whose
\* current password does not match is answered 401 and the store is left
\* as it is. The write changes the password column of that identity alone,
\* and the hash it leaves verifies the new password and, when the two
\* differ, no longer verifies the old one (so a login comparing against
\* the record succeeds with the new password and fails with the old).
C24_ChangePassword ==
    [][\A c \in Clients :
          LET id == req[c].user.id
              verdict == comparePasswords(req[c].currentPassword, req[c].user.password)
          IN /\ (pc[c] = "change_compare" /\ pc'[c] # "change_compare")
                   => /\ userStorage' = userStorage
                      /\ verdict = "false"
                           => response' = Reply(c, "change-password", 401,
                                                "Current password is incorrect", NoUser)
                      /\ pc'[c] = "change_hash" => verdict = "true"
             /\ (pc[c] = "change_hash" /\ pc'[c] # "change_hash")
                   => /\ verdict = "true"
                      /\ response' = Reply(c, "change-password", 200,
                                           "Password updated successfully", id)
                      /\ \E hash \in {hashPassword(req[c].newPassword, s) : s \in Salts} :
                            userStorage' = [userStorage EXCEPT ![id].password = hash]
                      /\ comparePasswords(req[c].newPassword, userStorage'[id].password) = "true"
                      /\ req[c].newPassword # req[c].currentPassword
                           => comparePasswords(req[c].currentPassword,
                                               userStorage'[id].password) = "false"
             /\ (~(pc[c] \in {"change_compare", "change_hash"}) /\ response'.client = c
                   /\ response'.op = "change-password")
                   => userStorage' = userStorage]_vars

\* a password was changed from p1 to p2
C24_Witness ==
    /\ response.op = "change-password"
    /\ response.status = 200
    /\ comparePasswords("p2", userStorage[response.userId].password) = "true"
    /\ comparePasswords("p1", userStorage[response.userId].password) = "false"

\* =====================================================================
\* Stripe: POST /api/get-or-create-subscription and POST /api/webhook
\* =====================================================================
\* stripe.customers counts the customer ids Stripe has issued (a new
\* customer gets the next one), and a subscription is named by the id of
\* its customer: the program reads a subscription id only for being null
\* or not. stripe.retrieving holds the stripe.invoices.retrieve calls of
\* the webhook handlers that await them.

\* an invoice, named by its id, with invoice.created and the amount
NoInvoice == [id |-> "", created |-> 0, amount |-> 0]
Invoices == {[id |-> "in_1", created |-> 1, amount |-> 999],
             [id |-> "in_2", created |-> 2, amount |-> 999]}

\* variant: premium once set stays set
updatePremiumStatusKept(store, userId, isPremium) ==
    updateUser(store, userId, [isPremium |-> isPremium \/ store[userId].isPremium])

updatePremiumStatus(store, userId, isPremium) ==
    updateUser(store, userId, [isPremium |-> isPremium])

updateStripeCustomerId(store, userId, customerId) ==
    updateUser(store, userId, [stripeCustomerId |-> customerId])

updateStripeSubscriptionId(store, userId, subscriptionId) ==
    updateUser(store, userId, [stripeSubscriptionId |-> subscriptionId])

\* the record createPayment stores for an invoice
PaymentData(userId, invoice, status) ==
    [ userId |-> userId, amount |-> invoice.amount, date |-> invoice.created,
      status |-> status, plan |-> "premium-monthly", method |-> "card" ]

\* id = currentPaymentId++ (serial in the database)
createPayment(paymentData) ==
    Append(paymentStorage,
           [f \in DOMAIN paymentData \cup {"id"} |->
               IF f = "id" THEN Len(paymentStorage) + 1 ELSE paymentData[f]])

\* payment records stored or still to be stored by a waiting webhook
PaymentRoom == Len(paymentStorage) + Len(stripe.retrieving) < MaxPayments

\* req.user as deserializeUser read it when the request arrived
GetOrCreateSubscription(c) ==
    /\ Idle(c)
    /\ isAuthenticated(c)
    /\ LET user == userStorage[sessionStore[c]]
       IN req' = [req EXCEPT ![c] =
                    [op |-> "subscription",
                     user |-> [id |-> user.id,
                               stripeCustomerId |-> user.stripeCustomerId,
                               stripeSubscriptionId |-> user.stripeSubscriptionId]]]
    /\ pc' = [pc EXCEPT ![c] = "subscription"]
    /\ response' = NoResponse
    /\ UNCHANGED <<backend, paymentStorage, stripe, userStorage, sessionStore, now>>

\* stripe.subscriptions.retrieve answered (active, or not), then
\* stripe.customers.create for a user without a customer and
\* updateStripeCustomerId; a Stripe error is answered 400
SubscriptionCustomer(c) ==
    /\ pc[c] = "subscription"
    /\ LET user == req[c].user
       IN \/ /\ user.stripeSubscriptionId # NoSubscription
             /\ Respond(c, Reply(c, "subscription", 200, "Subscription is already active",
                                 user.id))
             /\ UNCHANGED <<userStorage, stripe>>
          \/ /\ user.stripeCustomerId = NoCustomer
             /\ Respond(c, Reply(c, "subscription", 400, "error.message", NoUser))
             /\ UNCHANGED <<userStorage, stripe>>
          \/ /\ user.stripeCustomerId = NoCustomer
             /\ stripe.customers < MaxUsers
             /\ stripe' = [stripe EXCEPT !.customers = @ + 1]
             /\ userStorage' = updateStripeCustomerId(userStorage, user.id,
                                                      stripe.customers + 1)
             /\ pc' = [pc EXCEPT ![c] = "subscription_create"]
             /\ req' = [req EXCEPT ![c] =
                          [op |-> "subscription", user |-> user,
                           customerId |-> stripe.customers + 1]]
             /\ response' = NoResponse
          \/ /\ user.stripeCustomerId # NoCustomer
             /\ pc' = [pc EXCEPT ![c] = "subscription_create"]
             /\ req' = [req EXCEPT ![c] =
                          [op |-> "subscription", user |-> user,
                           customerId |-> user.stripeCustomerId]]
             /\ response' = NoResponse
             /\ UNCHANGED <<userStorage, stripe>>
    /\ UNCHANGED <<backend, paymentStorage, sessionStore, now>>

\* stripe.subscriptions.create answered: updateStripeSubscriptionId and the
\* client secret, or 400
SubscriptionCreate(c) ==
    /\ pc[c] = "subscription_create"
    /\ \/ /\ Respond(c, Reply(c, "subscription", 400, "error.message", NoUser))
          /\ UNCHANGED <<userStorage, stripe>>
       \/ /\ userStorage' = updateStripeSubscriptionId(userStorage, req[c].user.id,
                                                       req[c].customerId)
          /\ UNCHANGED stripe
          /\ Respond(c, Reply(c, "subscription", 200, "clientSecret", req[c].user.id))
    /\ UNCHANGED <<backend, paymentStorage, sessionStore, now>>

\* an event as Stripe sends it: data.object is a subscription (customer,
\* status, latest_invoice) or an invoice (customer, created, amounts)
SubscriptionEvents == {"customer.subscription.created", "customer.subscription.updated"}

EventTypes ==
    SubscriptionEvents \cup
    {"customer.subscription.deleted", "invoice.payment_succeeded",
     "invoice.payment_failed", "customer.updated"}

InvoiceEvents == {"invoice.payment_succeeded", "invoice.payment_failed"}

\* latest_invoice of a subscription may be null; an invoice event carries
\* its invoice; status is read of a subscription alone
Events ==
    {e \in [ type : EventTypes, customer : 1 .. (MaxUsers + 1),
             status : {"active", "incomplete"}, invoice : Invoices \cup {NoInvoice} ] :
        /\ e.type \in InvoiceEvents => e.invoice # NoInvoice
        /\ e.type \notin SubscriptionEvents => e.status = "active"
        /\ e.type \notin SubscriptionEvents \cup InvoiceEvents => e.invoice = NoInvoice}

\* the events whose handling stores, or may store, a payment
Paying(event) ==
    \/ event.type \in InvoiceEvents
    \/ event.type \in SubscriptionEvents /\ event.status = "active"
                                          /\ event.invoice # NoInvoice

\* users.find(u => u.stripeCustomerId === customerId) over getAllUsers()
findByCustomer(customerId) ==
    LET matches == {i \in Ids : userStorage[i].stripeCustomerId = customerId}
    IN IF backend = "mem" THEN MemFind(matches) ELSE DbFind(matches)

Received == Reply("stripe", "webhook", 200, "received", NoUser)

\* The handler up to res.json, or up to its await on
\* stripe.invoices.retrieve. (A request that fails constructEvent is
\* answered 400 before the switch and touches nothing.)
Webhook(event) ==
    /\ Paying(event) => PaymentRoom
    /\ \E id \in findByCustomer(event.customer) :
         CASE event.type \in SubscriptionEvents ->
                 IF id = NoUser
                 THEN /\ Answer(Received)
                      /\ UNCHANGED <<userStorage, paymentStorage, stripe>>
                 ELSE /\ userStorage' = updatePremiumStatus(userStorage, id,
                                                            event.status = "active")
                      /\ IF event.status = "active" /\ event.invoice # NoInvoice
                         THEN /\ stripe' = [stripe EXCEPT !.retrieving =
                                    Append(@, [userId |-> id, invoice |-> event.invoice])]
                              /\ response' = NoResponse
                         ELSE /\ Answer(Received)
                              /\ UNCHANGED stripe
                      /\ UNCHANGED paymentStorage
           [] event.type = "customer.subscription.deleted" ->
                 /\ userStorage' = IF id = NoUser THEN userStorage
                                   ELSE updatePremiumStatus(userStorage, id, FALSE)
                 /\ Answer(Received)
                 /\ UNCHANGED <<paymentStorage, stripe>>
           [] event.type = "invoice.payment_succeeded" ->
                 /\ IF id = NoUser
                    THEN UNCHANGED <<userStorage, paymentStorage>>
                    ELSE /\ paymentStorage' =
                               createPayment(PaymentData(id, event.invoice, "completed"))
                         /\ userStorage' = updatePremiumStatus(userStorage, id, TRUE)
                 /\ Answer(Received)
                 /\ UNCHANGED stripe
           [] event.type = "invoice.payment_failed" ->
                 /\ IF id = NoUser
                    THEN UNCHANGED paymentStorage
                    ELSE paymentStorage' =
                            createPayment(PaymentData(id, event.invoice, "failed"))
                 /\ Answer(Received)
                 /\ UNCHANGED <<userStorage, stripe>>
           [] OTHER ->
                 /\ Answer(Received)
                 /\ UNCHANGED <<userStorage, paymentStorage, stripe>>
    /\ UNCHANGED <<backend, sessionStore, pc, req, now>>

RemoveAt(seq, k) == [i \in 1 .. (Len(seq) - 1) |-> IF i < k THEN seq[i] ELSE seq[i + 1]]

\* stripe.invoices.retrieve answered for the k-th waiting handler: a paid
\* invoice is stored as a completed payment; an unpaid one, or an error of
\* the call (caught and logged), stores nothing
WebhookInvoice(k, paid) ==
    /\ k \in DOMAIN stripe.retrieving
    /\ paymentStorage' =
          IF paid
          THEN createPayment(PaymentData(stripe.retrieving[k].userId,
                                         stripe.retrieving[k].invoice, "completed"))
          ELSE paymentStorage
    /\ stripe' = [stripe EXCEPT !.retrieving = RemoveAt(@, k)]
    /\ Answer(Received)
    /\ UNCHANGED <<backend, userStorage, sessionStore, pc, req, now>>

\* One client that registers and subscribes, and Stripe's events for the
\* first two customers and one invoice.
BillingEvents ==
    {e \in Events :
        /\ e.customer <= 2
        /\ e.invoice.created <= 1
        /\ e.type = "customer.subscription.created" => e.status = "active"
        /\ e.type = "customer.subscription.updated" =>
              e.status = "incomplete" /\ e.invoice = NoInvoice}

NextBilling ==
    \/ \E c \in AuthClients, body \in CredentialBodies : Register(c, body)
    \/ \E c \in AuthClients : RegisterCreate(c)
    \/ \E c \in AuthClients : GetOrCreateSubscription(c)
    \/ \E c \in AuthClients : SubscriptionCustomer(c)
    \/ \E c \in AuthClients : SubscriptionCreate(c)
    \/ \E event \in BillingEvents : Webhook(event)
    \/ \E k \in 1 .. MaxPayments, paid \in BOOLEAN : WebhookInvoice(k, paid)

SpecBilling == Init /\ [][NextBilling]_vars

\* the identities whose stripeCustomerId is the event's customer
Matching(event) == {i \in Ids : userStorage[i].stripeCustomerId = event.customer}

Appended(userId, invoice, status) ==
    /\ Len(paymentStorage') = Len(paymentStorage) + 1
    /\ \A k \in DOMAIN paymentStorage : paymentStorage'[k] = paymentStorage[k]
    /\ LET payment == paymentStorage'[Len(paymentStorage')]
       IN /\ payment.userId = userId
          /\ payment.status = status
          /\ payment.date = invoice.created
          /\ payment.amount = invoice.amount

\* C25: the webhook sets premium of the identity whose stripeCustomerId is
\* the event's customer to (status = active) on subscription created and
\* updated, to false on subscription deleted, to true with a completed
\* payment appended on invoice.payment_succeeded; invoice.payment_failed
\* appends a failed payment and leaves premium as it is; an event whose
\* customer matches no identity, or of another type, changes no identity
\* and appends no payment. No other field and no other identity changes,
\* and the later answer of the invoice lookup changes no identity.
C25_WebhookDrivesPremium ==
    [][/\ \A event \in BillingEvents :
            Webhook(event) =>
               IF Matching(event) = {} \/ event.type \notin SubscriptionEvents \cup
                        InvoiceEvents \cup {"customer.subscription.deleted"}
               THEN /\ userStorage' = userStorage
                    /\ paymentStorage' = paymentStorage
                    /\ stripe' = stripe
               ELSE \E i \in Matching(event) :
                       CASE event.type \in SubscriptionEvents ->
                               /\ userStorage' = [userStorage EXCEPT
                                     ![i].isPremium = (event.status = "active")]
                               /\ paymentStorage' = paymentStorage
                         [] event.type = "customer.subscription.deleted" ->
                               /\ userStorage' = [userStorage EXCEPT ![i].isPremium = FALSE]
                               /\ paymentStorage' = paymentStorage
                         [] event.type = "invoice.payment_succeeded" ->
                               /\ userStorage' = [userStorage EXCEPT ![i].isPremium = TRUE]
                               /\ Appended(i, event.invoice, "completed")
                         [] event.type = "invoice.payment_failed" ->
                               /\ userStorage' = userStorage
                               /\ Appended(i, event.invoice, "failed")
       /\ \A k \in 1 .. MaxPayments, paid \in BOOLEAN :
            WebhookInvoice(k, paid) => userStorage' = userStorage]_vars

\* a failed payment was recorded for a premium identity after a completed
\* one, and premium is still set
C25_Witness ==
    /\ response = Received
    /\ Len(paymentStorage) = 2
    /\ paymentStorage[1].status = "completed"
    /\ paymentStorage[2].status = "failed"
    /\ paymentStorage[2].userId = paymentStorage[1].userId
    /\ userStorage[paymentStorage[2].userId].isPremium
    /\ userStorage[paymentStorage[2].userId].stripeCustomerId # NoCustomer

\* the columns updateUserSchema does not list and a profile update is to
\* leave alone
ProtectedFields ==
    {"id", "role", "isPremium", "password", "twoFactorSecret", "walletAddress"}

\* C26: PATCH /api/user leaves the caller's id, role, premium flag, password
\* hash, second-factor secret and wallet address unchanged, and an
\* identity's role goes from user to admin only in an update made by a
\* caller who is admin.
C26_ProfileUpdateFrame ==
    [][/\ \A c \in Clients :
            (response'.client = c /\ response'.op = "user")
               => \A i \in Ids : \A f \in ProtectedFields :
                     userStorage'[i][f] = userStorage[i][f]
       /\ \A i \in Ids :
            (userStorage[i].role = "user" /\ userStorage'[i].role = "admin")
               => response'.op = "admin" /\ isAdmin(response'.client)]_vars

\* ---------------------------------------------------------------------
\* The second-factor columns under every route that writes them: the 2FA
\* settings, the caller's own profile update (is2FAEnabled is a field of
\* updateUserSchema) and the admin update, with login and verify-2fa.
FlagBodies == {[is2FAEnabled |-> TRUE], [role |-> "admin"]}

NextFlags ==
    \/ \E c \in AuthClients, body \in CredentialBodies : Register(c, body)
    \/ \E c \in AuthClients : RegisterCreate(c)
    \/ \E c \in AuthClients, u \in Usernames : Login(c, u, "p1")
    \/ \E c \in AuthClients : LoginFinish(c)
    \/ \E c \in AuthClients, id \in UserIds, token \in Tokens : Verify2FA(c, id, token)
    \/ \E c \in AuthClients, secret \in Secrets : Setup2FA(c, secret)
    \/ \E c \in AuthClients, token \in Tokens : Enable2FA(c, token)
    \/ \E c \in AuthClients : Disable2FA(c)
    \/ \E c \in AuthClients, body \in FlagBodies : UpdateProfile(c, body)
    \/ \E c \in AuthClients, id \in UserIds :
          AdminUpdate(c, id, [is2FAEnabled |-> TRUE])
    \/ \E c \in AuthClients : Logout(c)

SpecFlags == Init /\ [][NextFlags]_vars

\* C27: in every reachable state an identity whose is2FAEnabled is true has
\* a second-factor secret, so verify-2fa for it never answers "Invalid
\* user or 2FA not setup".
C27_EnabledHasSecret ==
    \A i \in Ids : userStorage[i].is2FAEnabled => userStorage[i].twoFactorSecret # NoSecret

\* C28: a record's wallet address becomes non-null only in the step of a
\* wallet login that creates the record, after a signature by that address
\* was verified; no other step (register, profile update) binds a wallet
\* address to an identity.
C28_WalletBoundBySignature ==
    [][\A i \in DOMAIN userStorage' :
          userStorage'[i].walletAddress # Null
             => \/ i \in Ids /\ userStorage[i].walletAddress = userStorage'[i].walletAddress
                \/ \E c \in Clients :
                      /\ pc[c] = "web3_hash"
                      /\ pc'[c] = "idle"
                      /\ i \notin Ids
                      /\ toLowerCase(req[c].message.address)
                            = toLowerCase(userStorage'[i].walletAddress)]_vars

\* ---------------------------------------------------------------------
\* Handlers of one client and of Stripe that write different columns of
\* the same record while others are between two awaits: login
\* (updateLastLogin), the 2FA settings and the subscription endpoint
\* (updateUser), and the webhook (updatePremiumStatus).
PremiumEvents ==
    {e \in Events : ~Paying(e) /\ e.customer <= 2
                    /\ e.type \in SubscriptionEvents \cup {"customer.subscription.deleted"}}

NextConcurrent ==
    \/ \E c \in AuthClients, body \in CredentialBodies : Register(c, body)
    \/ \E c \in AuthClients : RegisterCreate(c)
    \/ \E c \in AuthClients, u \in Usernames : Login(c, u, "p1")
    \/ \E c \in AuthClients : LoginFinish(c)
    \/ \E c \in AuthClients, secret \in Secrets : Setup2FA(c, secret)
    \/ \E c \in AuthClients : Disable2FA(c)
    \/ \E c \in AuthClients : GetOrCreateSubscription(c)
    \/ \E c \in AuthClients : SubscriptionCustomer(c)
    \/ \E c \in AuthClients : SubscriptionCreate(c)
    \/ \E event \in PremiumEvents : Webhook(event)
    \/ Tick

SpecConcurrent == Init /\ [][NextConcurrent]_vars

\* the columns of record i a step changed
Changed(i) == {f \in DOMAIN userStorage[i] : userStorage'[i][f] # userStorage[i][f]}

\* the columns of record i the handler that took the step writes
Written(i) ==
    LET r == response'
        caller == IF r.client \in Clients THEN sessionStore[r.client] ELSE NoUser
    IN  (IF r.op = "disable-2fa" /\ caller = i
         THEN {"is2FAEnabled", "twoFactorSecret"} ELSE {})
        \cup (IF r.op = "setup-2fa" /\ caller = i THEN {"twoFactorSecret"} ELSE {})
        \cup (IF r.op = "login" /\ r.userId = i THEN {"lastLogin"} ELSE {})
        \cup (IF r.op = "webhook" THEN {"isPremium"} ELSE {})
        \cup (IF \E c \in Clients : pc[c] = "subscription" /\ req[c].user.id = i
              THEN {"stripeCustomerId"} ELSE {})
        \cup (IF \E c \in Clients : pc[c] = "subscription_create" /\ req[c].user.id = i
              THEN {"stripeSubscriptionId"} ELSE {})

\* C29: with MemStorage a partial update changes the columns it writes and
\* no other column of the record, whatever other handlers have written
\* since the updating handler started: of two handlers that write
\* different columns of one identity, in either order and with either one
\* in flight across the other's write, both writes are in the record.
C29_DisjointWritesKept ==
    [][backend = "mem" =>
          \A i \in Ids :
             /\ Changed(i) \subseteq Written(i)
             /\ response'.op = "disable-2fa" /\ sessionStore[response'.client] = i
                  => ~userStorage'[i].is2FAEnabled /\ userStorage'[i].twoFactorSecret = NoSecret
             /\ (response'.op = "login" /\ response'.userId = i /\ response'.message = "user")
                  => userStorage'[i].lastLogin = now
             /\ (\E c \in Clients : pc[c] = "subscription_create" /\ pc'[c] = "idle"
                                    /\ req[c].user.id = i /\ response'.status = 200)
                  => userStorage'[i].stripeSubscriptionId # NoSubscription]_vars

\* the subscription endpoint is between its two writes for an identity
\* whose premium flag and second-factor secret were written after its
\* first write; its second write is still to come
C29_Witness ==
    \E c \in Clients :
       /\ backend = "mem"
       /\ pc[c] = "subscription_create"
       /\ req[c].user.stripeCustomerId = NoCustomer
       /\ LET user == userStorage[req[c].user.id]
          IN /\ user.stripeCustomerId # NoCustomer
             /\ user.isPremium
             /\ user.twoFactorSecret # NoSecret
             /\ user.lastLogin > 1

\* C30: no identity has two completed payment records for one invoice (a
\* payment record carries the invoice's creation time as its date and
\* invoices differ in it), whatever events the webhook is sent: the
\* subscription event and the invoice event of one paid invoice, or one
\* event delivered twice, record the payment once.
C30_OnePaymentPerInvoice ==
    \A j \in DOMAIN paymentStorage : \A k \in DOMAIN paymentStorage :
       (/\ paymentStorage[j].status = "completed"
        /\ paymentStorage[k].status = "completed"
        /\ paymentStorage[j].userId = paymentStorage[k].userId
        /\ paymentStorage[j].date = paymentStorage[k].date)
          => j = k

====
